---- MODULE Spec2Model ----
(***************************************************************************)
(* Model of the Dunnes shopping optimiser: the coupon rules                *)
(* (utils/couponRules.ts) and the planner optimizeShoppingPlan             *)
(* (utils/optimizer.ts).                                                   *)
(*                                                                         *)
(* Money is an integer number of half cents: a budget entered in whole     *)
(* cents is split over at most two shops of a week, so every amount the    *)
(* planner computes is a multiple of half a cent (DivisionsExact checks    *)
(* this).  The arithmetic is exact; the binary floating point error of     *)
(* the JavaScript numbers is not modelled.                                 *)
(* Dates are whole day numbers: every Date of a run is built from          *)
(* startDate with setDate, so all of them carry the same time of day.      *)
(* Coupons are JavaScript objects shared by reference between the active   *)
(* list and the entries; they live in the heap `coupons' and are referred  *)
(* to by their index in it (0 is null / undefined).                        *)
(***************************************************************************)
EXTENDS Integers, Sequences, FiniteSets

VARIABLES
    weeklyBudget,    \* argument weeklyBudget
    startDate,       \* argument startDate
    pc,              \* position in optimizeShoppingPlan
    week,            \* outer loop counter
    shopInWeek,      \* inner loop counter
    weeklyAmount,    \* local of the outer loop body
    shopsThisWeek,   \* local of the outer loop body
    entries,         \* ShoppingEntry[]
    coupons,         \* heap of the Coupon objects created by this run
    activeCoupons,   \* Coupon[] : references into the heap
    totalSpend,
    totalSavings,
    missedSavings,
    couponsEarned,
    couponsUsed,
    steps,           \* history: the locals of every executed inner loop body
    result,          \* the returned OptimizationResult
    mathRandom,      \* state of the generator behind Math.random()
    previous,        \* what an earlier call with the same arguments returned
    budgetText,      \* BudgetInput: state budget, the text of the input field
    error,           \* BudgetInput: state error
    appWeeklyBudget, \* App: state weeklyBudget
    optimizationResult,  \* App: state optimizationResult
    loading,         \* App: state loading
    localStorage,    \* window.localStorage, the three keys of the application
    timers           \* handlers waiting on their setTimeout

vars == <<weeklyBudget, startDate, pc, week, shopInWeek, weeklyAmount,
          shopsThisWeek, entries, coupons, activeCoupons, totalSpend,
          totalSavings, missedSavings, couponsEarned, couponsUsed, steps,
          result, mathRandom, previous, budgetText, error, appWeeklyBudget,
          optimizationResult, loading, localStorage, timers>>

\* the state of the application around the planner
appVars == <<budgetText, error, appWeeklyBudget, optimizationResult, loading,
             localStorage, timers>>

\* the state of the caller, which the planner does not touch
callerVars == <<previous, appVars>>

----------------------------------------------------------------------------
(* Bounds of the model *)

\* budgets run from -1 euro to MaxBudgetEuros euros, taking every amount of
\* whole cents within EuroWindow cents of a whole euro (all thresholds of the
\* planner are whole euros; odd cents give the half cent splits)
MaxBudgetEuros == 120
EuroWindow == 5
MaxStartDay == 1

\* Math.random() is a generator with a hidden state: a call returns the state
\* and steps it, with period RandomPeriod.  Nothing reads a random suffix, so
\* the states are interchangeable and the first call starts from state 0; a
\* later call starts from wherever the calls before it left the generator
RandomPeriod == 3

----------------------------------------------------------------------------
(* Units and small helpers *)

Cents(c) == c * 2
Euro(e) == e * 200

Min(a, b) == IF a <= b THEN a ELSE b
Max(a, b) == IF a >= b THEN a ELSE b

\* Math.round(x * 100) / 100 on an amount of half cents: halves round up
Round2(x) == ((x + 1) \div 2) * 2

----------------------------------------------------------------------------
(* utils/couponRules.ts *)

NoCoupon == 0        \* null / undefined coupon reference
NoDate == -1         \* usedDate of a coupon that was not used

\* mutant: the large coupon stays valid for 14 days
COUPON_RULES_LargeFortnight ==
    [small |-> [minSpend |-> Euro(25), maxSpend |-> Cents(4999),
                couponValue |-> Euro(5), minUseSpend |-> Euro(25),
                validDays |-> 6],
     large |-> [minSpend |-> Euro(50),
                couponValue |-> Euro(10), minUseSpend |-> Euro(50),
                validDays |-> 13]]

COUPON_RULES ==
    [small |-> [minSpend |-> Euro(25), maxSpend |-> Cents(4999),
                couponValue |-> Euro(5), minUseSpend |-> Euro(25),
                validDays |-> 6],
     large |-> [minSpend |-> Euro(50),
                couponValue |-> Euro(10), minUseSpend |-> Euro(50),
                validDays |-> 9]]

\* mutant: the validity is counted from the day of purchase
createCoupon_FromEarnedDay(type, earnedDate) ==
    LET rules == COUPON_RULES[type]
        validFrom == earnedDate + 1
        validUntil == earnedDate + rules.validDays
    IN  [id |-> <<type, earnedDate, mathRandom>>,
         type |-> type,
         value |-> rules.couponValue,
         minSpend |-> rules.minUseSpend,
         earnedDate |-> earnedDate,
         validFrom |-> validFrom,
         validUntil |-> validUntil,
         used |-> FALSE,
         usedDate |-> NoDate]

\* mutant: the random number of the id also lengthens the validity
createCoupon_SeededValidity(type, earnedDate) ==
    LET rules == COUPON_RULES[type]
        validFrom == earnedDate + 1
        validUntil == validFrom + rules.validDays + mathRandom
    IN  [id |-> <<type, earnedDate, mathRandom>>,
         type |-> type,
         value |-> rules.couponValue,
         minSpend |-> rules.minUseSpend,
         earnedDate |-> earnedDate,
         validFrom |-> validFrom,
         validUntil |-> validUntil,
         used |-> FALSE,
         usedDate |-> NoDate]

\* Math.random(): the generator steps to its next state
NextRandom(r) == (r + 1) % RandomPeriod

\* the Coupon object built for a purchase on earnedDate; its id is made of
\* the type, the time of the purchase and a random suffix
createCoupon(type, earnedDate) ==
    LET rules == COUPON_RULES[type]
        validFrom == earnedDate + 1
        validUntil == validFrom + rules.validDays
    IN  [id |-> <<type, earnedDate, mathRandom>>,
         type |-> type,
         value |-> rules.couponValue,
         minSpend |-> rules.minUseSpend,
         earnedDate |-> earnedDate,
         validFrom |-> validFrom,
         validUntil |-> validUntil,
         used |-> FALSE,
         usedDate |-> NoDate]

\* mutant: the thresholds compared with > instead of >=
getCouponEarnedType_Strict(spendAmount) ==
    IF spendAmount > COUPON_RULES.large.minSpend THEN "large"
    ELSE IF spendAmount > COUPON_RULES.small.minSpend THEN "small"
    ELSE "none"

\* the tier earned by a spend: "large", "small" or "none" (null)
getCouponEarnedType(spendAmount) ==
    IF spendAmount >= COUPON_RULES.large.minSpend THEN "large"
    ELSE IF spendAmount >= COUPON_RULES.small.minSpend THEN "small"
    ELSE "none"

canUseCoupon(coupon, spendAmount, date) ==
    /\ ~coupon.used
    /\ spendAmount >= coupon.minSpend
    /\ date >= coupon.validFrom
    /\ date <= coupon.validUntil

isCouponExpired(coupon, currentDate) == currentDate > coupon.validUntil

----------------------------------------------------------------------------
(* JavaScript values of the application *)

Null == [js |-> "null"]
Undefined == [js |-> "undefined"]

\* if (x) ... for a value that is an object, null or undefined
Truthy(x) == x # Null /\ x # Undefined

\* weeklyBudget state of App when it is null
NoBudget == -1

\* a text is a sequence of characters
Digits == <<"0", "1", "2", "3", "4", "5", "6", "7", "8", "9">>
IsDigit(ch) == \E d \in 1..10 : Digits[d] = ch
DigitValue(ch) == (CHOOSE d \in 1..10 : Digits[d] = ch) - 1

RECURSIVE LeadingDigits(_)
\* the longest prefix of a text that is made of digits
LeadingDigits(text) ==
    IF text # <<>> /\ IsDigit(Head(text))
    THEN <<Head(text)>> \o LeadingDigits(Tail(text))
    ELSE <<>>

RECURSIVE DigitsValue(_)
DigitsValue(ds) ==
    IF ds = <<>> THEN 0
    ELSE DigitsValue(SubSeq(ds, 1, Len(ds) - 1)) * 10 + DigitValue(ds[Len(ds)])

\* parseFloat(text) for a text of an optional sign, digits and at most two
\* decimals, followed by anything: the number read from the longest prefix
\* that is a number, or NaN when there is none
parseFloat(text) ==
    LET negative == text # <<>> /\ Head(text) = "-"
        unsigned == IF negative THEN Tail(text) ELSE text
        whole == LeadingDigits(unsigned)
        rest == SubSeq(unsigned, Len(whole) + 1, Len(unsigned))
        decimals == IF rest # <<>> /\ Head(rest) = "."
                    THEN LeadingDigits(Tail(rest)) ELSE <<>>
        tenths == IF Len(decimals) >= 1 THEN DigitValue(decimals[1]) ELSE 0
        hundredths == IF Len(decimals) >= 2 THEN DigitValue(decimals[2]) ELSE 0
        magnitude == Euro(DigitsValue(whole)) + Cents(10 * tenths + hundredths)
    IN  IF whole = <<>> /\ decimals = <<>>
        THEN [isNaN |-> TRUE, value |-> 0]
        ELSE [isNaN |-> FALSE,
              value |-> IF negative THEN 0 - magnitude ELSE magnitude]

RECURSIVE NaturalToString(_)
NaturalToString(n) ==
    IF n < 10 THEN <<Digits[n + 1]>>
    ELSE NaturalToString(n \div 10) \o <<Digits[(n % 10) + 1]>>

\* budget.toString() for a positive amount of whole cents: the shortest
\* decimal text of the number
NumberToString(amount) ==
    LET cents == (amount \div 2) % 100
        whole == NaturalToString(amount \div Euro(1))
    IN  IF cents = 0 THEN whole
        ELSE IF cents % 10 = 0
        THEN whole \o <<".", Digits[(cents \div 10) + 1]>>
        ELSE whole \o <<".", Digits[(cents \div 10) + 1],
                        Digits[(cents % 10) + 1]>>

\* date.toISOString(): a text that carries the instant ; new Date(text)
toISOString(date) == [iso |-> date]
NewDate(text) == text.iso

----------------------------------------------------------------------------
(* utils/storage.ts *)

\* localStorage with none of the keys of STORAGE_KEYS set
EmptyStorage ==
    [dunnes_weekly_budget |-> Null, dunnes_shopping_plan |-> Null,
     dunnes_manual_entries |-> Null]

\* localStorage.setItem(WEEKLY_BUDGET, budget.toString())
saveWeeklyBudget(amount) ==
    [localStorage EXCEPT
        !.dunnes_weekly_budget = [text |-> NumberToString(amount)]]

\* saved ? parseFloat(saved) : null
getWeeklyBudget ==
    LET saved == localStorage.dunnes_weekly_budget
    IN  IF saved = Null \/ saved.text = <<>> THEN Null
        ELSE parseFloat(saved.text)

\* the coupon object of saveShoppingPlan: the dates as ISO texts; a property
\* whose value is undefined is left out by JSON.stringify and reads as
\* undefined after JSON.parse: it is kept here with the value Undefined
SerializeCoupon(c) ==
    IF ~Truthy(c) THEN Undefined
    ELSE [c EXCEPT !.earnedDate = toISOString(c.earnedDate),
                   !.validFrom = toISOString(c.validFrom),
                   !.validUntil = toISOString(c.validUntil),
                   !.usedDate = IF c.usedDate = NoDate THEN Undefined
                                ELSE toISOString(c.usedDate)]

\* localStorage.setItem(SHOPPING_PLAN, JSON.stringify(serializable))
saveShoppingPlan(r) ==
    LET serializable ==
            [r EXCEPT !.entries =
                [i \in 1..Len(r.entries) |->
                    [r.entries[i] EXCEPT
                        !.date = toISOString(r.entries[i].date),
                        !.couponEarned =
                            SerializeCoupon(r.entries[i].couponEarned),
                        !.couponUsed =
                            SerializeCoupon(r.entries[i].couponUsed)]]]
    IN  [localStorage EXCEPT !.dunnes_shopping_plan = [json |-> serializable]]

\* mutant: the used date of a coupon is not read back
ReviveCoupon_NoUsedDate(c) ==
    IF ~Truthy(c) THEN Undefined
    ELSE [c EXCEPT !.earnedDate = NewDate(c.earnedDate),
                   !.validFrom = NewDate(c.validFrom),
                   !.validUntil = NewDate(c.validUntil),
                   !.usedDate = NoDate]

\* the coupon object of getShoppingPlan: the ISO texts back to dates
ReviveCoupon(c) ==
    IF ~Truthy(c) THEN Undefined
    ELSE [c EXCEPT !.earnedDate = NewDate(c.earnedDate),
                   !.validFrom = NewDate(c.validFrom),
                   !.validUntil = NewDate(c.validUntil),
                   !.usedDate = IF Truthy(c.usedDate) THEN NewDate(c.usedDate)
                                ELSE NoDate]

\* JSON.parse(saved) with the dates of the entries and coupons rebuilt, or
\* null when nothing is saved
getShoppingPlan ==
    LET saved == localStorage.dunnes_shopping_plan
    IN  IF saved = Null THEN Null
        ELSE LET parsed == saved.json
             IN  [parsed EXCEPT !.entries =
                    [i \in 1..Len(parsed.entries) |->
                        [parsed.entries[i] EXCEPT
                            !.date = NewDate(parsed.entries[i].date),
                            !.couponEarned =
                                ReviveCoupon(parsed.entries[i].couponEarned),
                            !.couponUsed =
                                ReviveCoupon(parsed.entries[i].couponUsed)]]]

\* Object.values(STORAGE_KEYS).forEach(key => localStorage.removeItem(key))
clearStorage == EmptyStorage

----------------------------------------------------------------------------
(* utils/optimizer.ts : helpers *)

Weeks == 10          \* for (let week = 0; week < 10; week++)
DaysPerWeek == 7

\* mutant: a third shop for the largest budgets
determineOptimalShopsPerWeek_Three(budget) ==
    IF budget >= Euro(100) THEN 3
    ELSE IF budget >= Euro(75) THEN (IF budget >= Euro(90) THEN 2 ELSE 1)
    ELSE 1

\* mutant: every week is split into two shops
determineOptimalShopsPerWeek_AlwaysTwo(budget) == 2

\* mutant: the week is split from 75 on
determineOptimalShopsPerWeek_SplitFrom75(budget) ==
    IF budget >= Euro(100) THEN 2
    ELSE IF budget >= Euro(75) THEN 2
    ELSE 1

determineOptimalShopsPerWeek(budget) ==
    IF budget >= Euro(100) THEN 2
    ELSE IF budget >= Euro(75) THEN (IF budget >= Euro(90) THEN 2 ELSE 1)
    ELSE 1

\* mutant: the raise to 50 starts at 40 instead of 45
optimizeSpendForCoupon_RaiseFrom40(plannedAmount, remainingBudget) ==
    IF plannedAmount >= Euro(40) /\ plannedAmount < Euro(50)
       /\ remainingBudget >= Euro(50) THEN Euro(50)
    ELSE IF plannedAmount >= Euro(50) THEN Max(Euro(50), plannedAmount)
    ELSE IF plannedAmount >= Euro(20) /\ plannedAmount < Euro(25)
            /\ remainingBudget >= Euro(25) THEN Euro(25)
    ELSE IF plannedAmount >= Euro(25) /\ plannedAmount < Euro(50)
         THEN Min(Cents(4999), plannedAmount)
    ELSE plannedAmount

\* mutant: no raise to the small threshold
optimizeSpendForCoupon_NoSmallRaise(plannedAmount, remainingBudget) ==
    IF plannedAmount >= Euro(45) /\ plannedAmount < Euro(50)
       /\ remainingBudget >= Euro(50) THEN Euro(50)
    ELSE IF plannedAmount >= Euro(50) THEN Max(Euro(50), plannedAmount)
    ELSE IF plannedAmount >= Euro(25) /\ plannedAmount < Euro(50)
         THEN Min(Cents(4999), plannedAmount)
    ELSE plannedAmount

optimizeSpendForCoupon(plannedAmount, remainingBudget) ==
    IF plannedAmount >= Euro(45) /\ plannedAmount < Euro(50)
       /\ remainingBudget >= Euro(50) THEN Euro(50)
    ELSE IF plannedAmount >= Euro(50) THEN Max(Euro(50), plannedAmount)
    ELSE IF plannedAmount >= Euro(20) /\ plannedAmount < Euro(25)
            /\ remainingBudget >= Euro(25) THEN Euro(25)
    ELSE IF plannedAmount >= Euro(25) /\ plannedAmount < Euro(50)
         THEN Min(Cents(4999), plannedAmount)
    ELSE plannedAmount

\* mutant: one week too many in the overall budget
totalBudget_Eleven == weeklyBudget * 11

\* const totalBudget = weeklyBudget * 10
totalBudget == weeklyBudget * 10

\* mutant: a weekly amount of exactly 0 is still planned
WeeklyAmountExhausted_Negative(amount) == amount < 0

\* if (weeklyAmount <= 0) break
WeeklyAmountExhausted(amount) == amount <= 0

\* new Date(startDate) ; setDate(startDate.getDate() + week * 7)
weekStartDateOf(w) == startDate + w * DaysPerWeek

\* shopInWeek === 0 ? 0 : Math.floor(6 / (shopsThisWeek - 1)) * shopInWeek
\* mutant: the second shop is placed a full week after the first
dayOffsetOf_NextWeek(shop, shops) ==
    IF shop = 0 THEN 0 ELSE (7 \div (shops - 1)) * shop

dayOffsetOf(shop, shops) ==
    IF shop = 0 THEN 0 ELSE (6 \div (shops - 1)) * shop

\* mutant: a coupon is swept on its last valid day
IsExpiredUnused_OnLastDay(c, entryDate) ==
    entryDate >= coupons[c].validUntil /\ ~coupons[c].used

\* mutant: redeemed coupons are swept too
IsExpiredUnused_IgnoreUsed(c, entryDate) ==
    entryDate > coupons[c].validUntil

\* activeCoupons.filter(c => entryDate > c.validUntil && !c.used)
IsExpiredUnused(c, entryDate) ==
    entryDate > coupons[c].validUntil /\ ~coupons[c].used

\* mutant: the used flag is not looked at
IsUsable_IgnoreUsed(c, entryDate) ==
    /\ entryDate >= coupons[c].validFrom
    /\ entryDate <= coupons[c].validUntil

\* .filter(c => !c.used && entryDate >= c.validFrom && entryDate <= c.validUntil)
IsUsable(c, entryDate) ==
    /\ ~coupons[c].used
    /\ entryDate >= coupons[c].validFrom
    /\ entryDate <= coupons[c].validUntil

\* mutant: the sort puts the lowest value first
Before_LowestValue(a, b) ==
    IF coupons[a].value # coupons[b].value
    THEN coupons[a].value < coupons[b].value
    ELSE coupons[a].validUntil < coupons[b].validUntil

\* the comparator of the sort: a negative result puts a before b
Before(a, b) ==
    IF coupons[a].value # coupons[b].value
    THEN coupons[a].value > coupons[b].value
    ELSE coupons[a].validUntil < coupons[b].validUntil

\* mutant: the reward that is cheapest to redeem is taken
BestCoupon_LowestMinSpend(usable) ==
    LET first == CHOOSE i \in 1..Len(usable) :
                    \A j \in 1..Len(usable) :
                        coupons[usable[i]].minSpend <= coupons[usable[j]].minSpend
    IN  usable[first]

\* usableCoupons[0] after the (stable) sort: the first element of the list
\* that no other element precedes
BestCoupon(usable) ==
    LET first == CHOOSE i \in 1..Len(usable) :
                    /\ \A j \in 1..Len(usable) : ~Before(usable[j], usable[i])
                    /\ \A j \in 1..(i-1) :
                          \E k \in 1..Len(usable) : Before(usable[k], usable[j])
    IN  usable[first]

\* mutant: any planned amount is taken to meet the coupon's minimum spend
MeetsMinSpend_Always(plannedAmount, c) == TRUE

\* mutant: the minimum spend is compared with the amount after the raise to
\* a threshold
MeetsMinSpend_AfterRaise(plannedAmount, c) ==
    optimizeSpendForCoupon(plannedAmount, Euro(50)) >= coupons[c].minSpend

\* if (plannedAmount >= bestCoupon.minSpend)
MeetsMinSpend(plannedAmount, c) == plannedAmount >= coupons[c].minSpend

\* mutant: the used date is not recorded
MarkUsed_NoDate(c, entryDate) ==
    [coupons EXCEPT ![c].used = TRUE]

\* mutant: the used flag is not set
MarkUsed_NoFlag(c, entryDate) ==
    [coupons EXCEPT ![c].usedDate = entryDate]

\* bestCoupon.used = true; bestCoupon.usedDate = entryDate
MarkUsed(c, entryDate) ==
    [coupons EXCEPT ![c].used = TRUE, ![c].usedDate = entryDate]

RECURSIVE ValueSum(_)
\* expiredCoupons.forEach(c => { missedSavings += c.value; ... })
ValueSum(cs) ==
    IF cs = <<>> THEN 0 ELSE coupons[Head(cs)].value + ValueSum(Tail(cs))

RECURSIVE WeekSpend_AllEntries(_, _)
\* mutant: the entries of earlier weeks are summed too
WeekSpend_AllEntries(es, weekStartDate) ==
    IF es = <<>> THEN 0
    ELSE Head(es).plannedAmount + WeekSpend_AllEntries(Tail(es), weekStartDate)

RECURSIVE WeekSpend(_, _)
\* entries.filter(e => e.date >= weekStartDate && e.date < weekStartDate + 7d)
\*        .reduce((sum, e) => sum + e.plannedAmount, 0)
WeekSpend(es, weekStartDate) ==
    IF es = <<>> THEN 0
    ELSE (IF Head(es).date >= weekStartDate
             /\ Head(es).date < weekStartDate + DaysPerWeek
          THEN Head(es).plannedAmount ELSE 0)
         + WeekSpend(Tail(es), weekStartDate)

----------------------------------------------------------------------------
(* utils/optimizer.ts : optimizeShoppingPlan *)

BudgetCents ==
    {100 * e + d : e \in (-1)..MaxBudgetEuros, d \in (-EuroWindow)..EuroWindow}
Budgets == {Cents(c) : c \in BudgetCents}
StartDays == 0..MaxStartDay

NoResult ==
    [entries |-> <<>>, totalSpend |-> 0, totalSavings |-> 0,
     missedSavings |-> 0, couponsEarned |-> 0, couponsUsed |-> 0]

\* the call: the arguments and the initialised locals (lines 8-19)
Init ==
    /\ weeklyBudget \in Budgets
    /\ startDate \in StartDays
    /\ pc = "week"
    /\ week = 0
    /\ shopInWeek = 0
    /\ weeklyAmount = 0
    /\ shopsThisWeek = 0
    /\ entries = <<>>
    /\ coupons = <<>>
    /\ activeCoupons = <<>>
    /\ totalSpend = 0
    /\ totalSavings = 0
    /\ missedSavings = 0
    /\ couponsEarned = 0
    /\ couponsUsed = 0
    /\ steps = <<>>
    /\ result = NoResult
    /\ mathRandom = 0
    /\ previous = <<>>
    /\ budgetText = <<>>
    /\ error = ""
    /\ appWeeklyBudget = NoBudget
    /\ optimizationResult = Null
    /\ loading = FALSE
    /\ localStorage = EmptyStorage
    /\ timers = {}

\* mutant: the weekly amount is capped by half of the remaining budget
WeekStart_HalfRemaining ==
    /\ pc = "week"
    /\ IF week < Weeks
       THEN LET amount == Min(weeklyBudget, (totalBudget - totalSpend) \div 2)
            IN  IF WeeklyAmountExhausted(amount)
                THEN /\ pc' = "return"
                     /\ UNCHANGED <<weeklyAmount, shopsThisWeek, shopInWeek>>
                ELSE /\ weeklyAmount' = amount
                     /\ shopsThisWeek' = determineOptimalShopsPerWeek(amount)
                     /\ shopInWeek' = 0
                     /\ pc' = "shop"
       ELSE /\ pc' = "return"
            /\ UNCHANGED <<weeklyAmount, shopsThisWeek, shopInWeek>>
    /\ UNCHANGED <<weeklyBudget, startDate, week, entries, coupons,
                   activeCoupons, totalSpend, totalSavings, missedSavings,
                   couponsEarned, couponsUsed, steps, result, mathRandom>>
    /\ UNCHANGED callerVars

\* head of the outer loop body (lines 22-29); the loop ends after 10 weeks
WeekStart ==
    /\ pc = "week"
    /\ IF week < Weeks
       THEN LET amount == Min(weeklyBudget, totalBudget - totalSpend)
            IN  IF WeeklyAmountExhausted(amount)
                THEN /\ pc' = "return"
                     /\ UNCHANGED <<weeklyAmount, shopsThisWeek, shopInWeek>>
                ELSE /\ weeklyAmount' = amount
                     /\ shopsThisWeek' = determineOptimalShopsPerWeek(amount)
                     /\ shopInWeek' = 0
                     /\ pc' = "shop"
       ELSE /\ pc' = "return"
            /\ UNCHANGED <<weeklyAmount, shopsThisWeek, shopInWeek>>
    /\ UNCHANGED <<weeklyBudget, startDate, week, entries, coupons,
                   activeCoupons, totalSpend, totalSavings, missedSavings,
                   couponsEarned, couponsUsed, steps, result, mathRandom>>
    /\ UNCHANGED callerVars

\* one pass of the inner loop body (lines 31-103) and the loop exits after it
Shop ==
    /\ pc = "shop"
    /\ LET weekStartDate == weekStartDateOf(week)
           entryDate == weekStartDate + dayOffsetOf(shopInWeek, shopsThisWeek)
           expiredCoupons ==
               SelectSeq(activeCoupons, LAMBDA c : IsExpiredUnused(c, entryDate))
           active1 ==
               SelectSeq(activeCoupons, LAMBDA c : ~IsExpiredUnused(c, entryDate))
           usableCoupons ==
               SelectSeq(active1, LAMBDA c : IsUsable(c, entryDate))
           remainingBudget == totalBudget - totalSpend
           remainingWeeklyAmount ==
               weeklyAmount - WeekSpend(entries, weekStartDate)
           slots == shopsThisWeek - shopInWeek
           tentative == remainingWeeklyAmount \div slots
           bestCoupon ==
               IF usableCoupons = <<>> THEN NoCoupon
               ELSE BestCoupon(usableCoupons)
           redeem ==
               /\ bestCoupon # NoCoupon
               /\ MeetsMinSpend(tentative, bestCoupon)
           couponUsed == IF redeem THEN bestCoupon ELSE NoCoupon
           savings == IF redeem THEN coupons[bestCoupon].value ELSE 0
           sized == IF redeem
                    THEN Max(tentative, coupons[bestCoupon].minSpend)
                    ELSE tentative
           plannedAmount ==
               Min(optimizeSpendForCoupon(sized, remainingBudget),
                   remainingBudget)
           earnedType == getCouponEarnedType(plannedAmount)
           couponEarned ==
               IF earnedType = "none" THEN NoCoupon ELSE Len(coupons) + 1
           coupons1 ==
               IF redeem THEN MarkUsed(bestCoupon, entryDate) ELSE coupons
           entry == [id |-> Len(entries),
                     date |-> entryDate,
                     plannedAmount |-> Round2(plannedAmount),
                     couponEarned |-> couponEarned,
                     couponUsed |-> couponUsed,
                     savings |-> savings,
                     status |-> "planned"]
           spent == totalSpend + plannedAmount
       IN  /\ missedSavings' = missedSavings + ValueSum(expiredCoupons)
           /\ coupons' = IF earnedType = "none" THEN coupons1
                         ELSE Append(coupons1,
                                     createCoupon(earnedType, entryDate))
           /\ activeCoupons' = IF earnedType = "none" THEN active1
                               ELSE Append(active1, couponEarned)
           /\ couponsEarned' = IF earnedType = "none" THEN couponsEarned
                               ELSE couponsEarned + 1
           /\ mathRandom' = IF earnedType = "none" THEN mathRandom
                             ELSE NextRandom(mathRandom)
           /\ couponsUsed' = IF redeem THEN couponsUsed + 1 ELSE couponsUsed
           /\ entries' = Append(entries, entry)
           /\ totalSpend' = spent
           /\ totalSavings' = totalSavings + savings
           /\ steps' = Append(steps,
                  [week |-> week, shopInWeek |-> shopInWeek,
                   shopsThisWeek |-> shopsThisWeek,
                   weeklyAmount |-> weeklyAmount,
                   entryDate |-> entryDate,
                   expired |-> expiredCoupons,
                   usable |-> usableCoupons,
                   bestCoupon |-> bestCoupon,
                   remainingBudget |-> remainingBudget,
                   tentative |-> tentative,
                   divRem |-> remainingWeeklyAmount % slots,
                   plannedAmount |-> plannedAmount])
           /\ IF spent >= totalBudget
              THEN /\ pc' = "return"
                   /\ UNCHANGED <<week, shopInWeek>>
              ELSE IF shopInWeek + 1 < shopsThisWeek
              THEN /\ pc' = "shop"
                   /\ shopInWeek' = shopInWeek + 1
                   /\ UNCHANGED week
              ELSE /\ pc' = "week"
                   /\ week' = week + 1
                   /\ UNCHANGED shopInWeek
    /\ UNCHANGED <<weeklyBudget, startDate, weeklyAmount, shopsThisWeek,
                   result>>
    /\ UNCHANGED callerVars

\* mutant: the rewards left unused at the end are counted as missed too
Return_SweepsRemaining ==
    /\ pc = "return"
    /\ result' = [entries |-> entries,
                  totalSpend |-> Round2(totalSpend),
                  totalSavings |-> Round2(totalSavings),
                  missedSavings |->
                      Round2(missedSavings
                             + ValueSum(SelectSeq(activeCoupons,
                                   LAMBDA c : ~coupons[c].used))),
                  couponsEarned |-> couponsEarned,
                  couponsUsed |-> couponsUsed]
    /\ pc' = "done"
    /\ UNCHANGED <<weeklyBudget, startDate, week, shopInWeek, weeklyAmount,
                   shopsThisWeek, entries, coupons, activeCoupons,
                   totalSpend, totalSavings, missedSavings, couponsEarned,
                   couponsUsed, steps, mathRandom>>
    /\ UNCHANGED callerVars

\* the return statement (lines 108-115)
Return ==
    /\ pc = "return"
    /\ result' = [entries |-> entries,
                  totalSpend |-> Round2(totalSpend),
                  totalSavings |-> Round2(totalSavings),
                  missedSavings |-> Round2(missedSavings),
                  couponsEarned |-> couponsEarned,
                  couponsUsed |-> couponsUsed]
    /\ pc' = "done"
    /\ UNCHANGED <<weeklyBudget, startDate, week, shopInWeek, weeklyAmount,
                   shopsThisWeek, entries, coupons, activeCoupons,
                   totalSpend, totalSavings, missedSavings, couponsEarned,
                   couponsUsed, steps, mathRandom>>
    /\ UNCHANGED callerVars

Next == WeekStart \/ Shop \/ Return

Spec == Init /\ [][Next]_vars

----------------------------------------------------------------------------
(* A second call of optimizeShoppingPlan with the same arguments *)

\* the caller keeps what the first call returned and calls again: the
\* locals of the function are initialised anew (lines 9-19); the generator
\* behind Math.random() goes on from where the first call left it
CallAgain ==
    /\ pc = "done"
    /\ previous = <<>>
    /\ previous' = <<[result |-> result, coupons |-> coupons]>>
    /\ pc' = "week"
    /\ week' = 0
    /\ shopInWeek' = 0
    /\ weeklyAmount' = 0
    /\ shopsThisWeek' = 0
    /\ entries' = <<>>
    /\ coupons' = <<>>
    /\ activeCoupons' = <<>>
    /\ totalSpend' = 0
    /\ totalSavings' = 0
    /\ missedSavings' = 0
    /\ couponsEarned' = 0
    /\ couponsUsed' = 0
    /\ steps' = <<>>
    /\ result' = NoResult
    /\ UNCHANGED <<weeklyBudget, startDate, mathRandom>>
    /\ UNCHANGED appVars

TwiceNext == Next \/ CallAgain

TwiceSpec == Init /\ [][TwiceNext]_vars


----------------------------------------------------------------------------
(* App : the plan is displayed and saved, and read back when the page loads *)

\* the OptimizationResult as the object graph the caller receives: every
\* entry holds its coupon objects (null when getCouponEarned returned null,
\* undefined when couponUsed was never assigned)
ResultValue(res, heap) ==
    [res EXCEPT !.entries =
        [i \in 1..Len(res.entries) |->
            [res.entries[i] EXCEPT
                !.couponEarned = IF @ = NoCoupon THEN Null ELSE heap[@],
                !.couponUsed = IF @ = NoCoupon THEN Undefined ELSE heap[@]]]]

\* the end of handleBudgetSet and of handleRegeneratePlan, after the planner
\* has returned: setOptimizationResult(result); saveShoppingPlan(result);
\* setLoading(false)
PlanReady ==
    /\ pc = "done"
    /\ optimizationResult' = ResultValue(result, coupons)
    /\ localStorage' = saveShoppingPlan(ResultValue(result, coupons))
    /\ loading' = FALSE
    /\ pc' = "idle"
    /\ UNCHANGED <<weeklyBudget, startDate, week, shopInWeek, weeklyAmount,
                   shopsThisWeek, entries, coupons, activeCoupons,
                   totalSpend, totalSavings, missedSavings, couponsEarned,
                   couponsUsed, steps, result, mathRandom, previous,
                   budgetText, error, appWeeklyBudget, timers>>

\* the page is loaded: every component state is initial, no timer is
\* pending, and the effect of App reads the saved budget and plan
Mount ==
    /\ pc = "idle"
    /\ budgetText' = <<>>
    /\ error' = ""
    /\ loading' = FALSE
    /\ timers' = {}
    /\ LET savedBudget == getWeeklyBudget
       IN  appWeeklyBudget' =
              IF savedBudget # Null /\ ~savedBudget.isNaN
                 /\ savedBudget.value # 0
              THEN savedBudget.value ELSE NoBudget
    /\ optimizationResult' = getShoppingPlan
    /\ UNCHANGED <<weeklyBudget, startDate, pc, week, shopInWeek,
                   weeklyAmount, shopsThisWeek, entries, coupons,
                   activeCoupons, totalSpend, totalSavings, missedSavings,
                   couponsEarned, couponsUsed, steps, result, mathRandom,
                   previous, localStorage>>

StorageNext == Next \/ PlanReady \/ Mount

\* the planner is called, its result saved, and the page loaded again
StorageSpec == Init /\ [][StorageNext]_vars

----------------------------------------------------------------------------
(* components/BudgetInput.tsx and App : the handlers *)

\* the texts a user puts in the budget field
BudgetTexts ==
    {<<>>, <<"a", "b", "c">>, <<"0">>, <<"-", "5">>,
     <<"1", "9", ".", "9", "9">>, <<"2", "0">>, <<"2", "5", "a">>,
     <<"5", "0", "0">>, <<"5", "0", "0", ".", "0", "1">>}

\* mutant: the lower bound of 20 is not checked
BudgetError_NoLowerBound(budgetNum) ==
    IF budgetNum.isNaN \/ budgetNum.value <= 0
    THEN "Please enter a valid budget amount"
    ELSE IF budgetNum.value > Euro(500)
    THEN "Budget seems too high. Please check the amount"
    ELSE ""

\* the validation of handleSubmit: the error it sets, "" for a valid budget
BudgetError(budgetNum) ==
    IF budgetNum.isNaN \/ budgetNum.value <= 0
    THEN "Please enter a valid budget amount"
    ELSE IF budgetNum.value < Euro(20)
    THEN "Budget should be at least 20 per week"
    ELSE IF budgetNum.value > Euro(500)
    THEN "Budget seems too high. Please check the amount"
    ELSE ""

\* the application is loaded for the first time: nothing is saved, the
\* planner has not been called
AppInit ==
    /\ weeklyBudget = NoBudget
    /\ startDate = 0
    /\ pc = "idle"
    /\ week = 0
    /\ shopInWeek = 0
    /\ weeklyAmount = 0
    /\ shopsThisWeek = 0
    /\ entries = <<>>
    /\ coupons = <<>>
    /\ activeCoupons = <<>>
    /\ totalSpend = 0
    /\ totalSavings = 0
    /\ missedSavings = 0
    /\ couponsEarned = 0
    /\ couponsUsed = 0
    /\ steps = <<>>
    /\ result = NoResult
    /\ mathRandom = 0
    /\ previous = <<>>
    /\ budgetText = <<>>
    /\ error = ""
    /\ appWeeklyBudget = NoBudget
    /\ optimizationResult = Null
    /\ loading = FALSE
    /\ localStorage = EmptyStorage
    /\ timers = {}

plannerVars == <<weeklyBudget, startDate, pc, week, shopInWeek, weeklyAmount,
                 shopsThisWeek, entries, coupons, activeCoupons, totalSpend,
                 totalSavings, missedSavings, couponsEarned, couponsUsed,
                 steps, result, mathRandom>>

\* onChange of the input: setBudget(e.target.value)
ChangeBudget ==
    /\ pc = "idle"
    /\ \E text \in BudgetTexts : budgetText' = text
    /\ UNCHANGED <<plannerVars, previous, error, appWeeklyBudget,
                   optimizationResult, loading, localStorage, timers>>

\* handleSubmit of BudgetInput and, for a valid budget, handleBudgetSet of
\* App up to its await; the submit button is disabled while loading
HandleSubmit ==
    /\ pc = "idle"
    /\ ~loading
    /\ LET budgetNum == parseFloat(budgetText)
       IN  /\ error' = BudgetError(budgetNum)
           /\ IF BudgetError(budgetNum) # ""
              THEN UNCHANGED <<appWeeklyBudget, loading, localStorage, timers>>
              ELSE /\ loading' = TRUE
                   /\ appWeeklyBudget' = budgetNum.value
                   /\ localStorage' = saveWeeklyBudget(budgetNum.value)
                   /\ timers' = timers \cup
                          {[handler |-> "handleBudgetSet",
                            budget |-> budgetNum.value]}
    /\ UNCHANGED <<plannerVars, previous, budgetText, optimizationResult>>

\* handleRegeneratePlan up to its await; the button is shown with a plan
\* and disabled while loading
HandleRegeneratePlan ==
    /\ pc = "idle"
    /\ Truthy(optimizationResult)
    /\ ~loading
    /\ IF appWeeklyBudget = NoBudget
       THEN UNCHANGED <<loading, timers>>
       ELSE /\ loading' = TRUE
            /\ timers' = timers \cup
                   {[handler |-> "handleRegeneratePlan",
                     budget |-> appWeeklyBudget]}
    /\ UNCHANGED <<plannerVars, previous, budgetText, error, appWeeklyBudget,
                   optimizationResult, localStorage>>

\* handleClearData; the button is shown with a plan
HandleClearData ==
    /\ pc = "idle"
    /\ Truthy(optimizationResult)
    /\ \E confirmed \in BOOLEAN :
          IF confirmed
          THEN /\ localStorage' = clearStorage
               /\ appWeeklyBudget' = NoBudget
               /\ optimizationResult' = Null
          ELSE UNCHANGED <<localStorage, appWeeklyBudget, optimizationResult>>
    /\ UNCHANGED <<plannerVars, previous, budgetText, error, loading, timers>>

\* the timeout of a waiting handler ends and it calls
\* optimizeShoppingPlan(budget) with today's date
TimerFires ==
    /\ pc = "idle"
    /\ \E t \in timers :
          /\ timers' = timers \ {t}
          /\ weeklyBudget' = t.budget
    /\ \E today \in StartDays : today >= startDate /\ startDate' = today
    /\ pc' = "week"
    /\ week' = 0
    /\ shopInWeek' = 0
    /\ weeklyAmount' = 0
    /\ shopsThisWeek' = 0
    /\ entries' = <<>>
    /\ coupons' = <<>>
    /\ activeCoupons' = <<>>
    /\ totalSpend' = 0
    /\ totalSavings' = 0
    /\ missedSavings' = 0
    /\ couponsEarned' = 0
    /\ couponsUsed' = 0
    /\ steps' = <<>>
    /\ result' = NoResult
    /\ UNCHANGED <<mathRandom, previous, budgetText, error, appWeeklyBudget,
                   optimizationResult, loading, localStorage>>

AppNext ==
    \/ Next
    \/ PlanReady
    \/ Mount
    \/ ChangeBudget
    \/ HandleSubmit
    \/ HandleRegeneratePlan
    \/ HandleClearData
    \/ TimerFires

AppSpec == AppInit /\ [][AppNext]_vars

----------------------------------------------------------------------------
(* Sanity of the model *)

\* every division of the planner is exact in half cents
DivisionsExact == \A i \in 1..Len(steps) : steps[i].divRem = 0

----------------------------------------------------------------------------
(* Vocabulary of the claims *)

Range(s) == {s[i] : i \in 1..Len(s)}
Events == 1..Len(entries)
Heap == 1..Len(coupons)
Abs(x) == IF x < 0 THEN -x ELSE x

RECURSIVE SumSeq(_)
SumSeq(s) == IF s = <<>> THEN 0 ELSE Head(s) + SumSeq(Tail(s))

\* the spend planned by the first i events, before rounding
SpentThrough(i) == SumSeq([j \in 1..i |-> steps[j].plannedAmount])

RECURSIVE SumOver(_, _)
SumOver(S, f) ==
    IF S = {} THEN 0
    ELSE LET x == CHOOSE y \in S : TRUE IN f[x] + SumOver(S \ {x}, f)

----------------------------------------------------------------------------
(* C1 *)

\* C1 as stated: for every budget, once an event is emitted the running
\* total of planned spend is at most ten weekly budgets, and so is the
\* returned totalSpend.
C1_SpendWithinTenBudgets_EveryBudget ==
    /\ \A i \in Events : SpentThrough(i) <= weeklyBudget * 10
    /\ pc = "done" => result.totalSpend <= weeklyBudget * 10

\* C1 amended: for every budget >= 0, every event's final spend is at most
\* the overall budget left before it, so the running total and the returned
\* totalSpend are at most ten weekly budgets; for a negative budget no event
\* is emitted and the returned totalSpend is 0.
C1_SpendWithinTenBudgets ==
    /\ weeklyBudget >= 0 =>
          /\ \A i \in Events :
                steps[i].plannedAmount
                    <= weeklyBudget * 10 - SpentThrough(i - 1)
          /\ totalSpend <= weeklyBudget * 10
          /\ pc = "done" => result.totalSpend <= weeklyBudget * 10
    /\ weeklyBudget < 0 =>
          /\ entries = <<>>
          /\ pc = "done" => result.totalSpend = 0

\* a finished plan that spent the whole budget, with an event raised above
\* the weekly budget by the threshold adjustment
C1_Witness ==
    /\ pc = "done"
    /\ weeklyBudget > 0
    /\ result.totalSpend = weeklyBudget * 10
    /\ \E i \in Events : steps[i].plannedAmount > weeklyBudget

----------------------------------------------------------------------------
(* C2 *)

\* the number of steps the planner can still take: 3 for every week not yet
\* started (its head and two shops), 1 for the return
StepsLeft ==
    CASE pc = "done" -> 0
      [] pc = "return" -> 1
      [] pc = "week" -> 2 + 3 * (10 - week)
      [] pc = "shop" -> 1 + 3 * (10 - week) - shopInWeek

\* C2: the planner terminates for every budget (every step it takes lowers
\* the number of steps it can still take, which is never negative, and until
\* it has returned it stands at a loop head, inside the inner loop with its
\* guard true, or at the return, where a step is defined); it visits at
\* most 10 weeks with at most 2 events each, so the schedule has at most 20
\* events.
C2_TerminatesWithinHorizon ==
    /\ [][StepsLeft' < StepsLeft]_vars
    /\ [](/\ StepsLeft >= 0
          /\ pc \in {"week", "shop", "return", "done"}
          /\ pc = "week" => week <= 10
          /\ pc = "shop" => (week < 10 /\ shopInWeek < shopsThisWeek)
          /\ Len(entries) <= 20
          /\ \A i \in Events :
                /\ steps[i].week \in 0..9
                /\ steps[i].shopInWeek \in 0..1
                /\ \A j \in Events :
                      (steps[j].week = steps[i].week
                       /\ steps[j].shopInWeek = steps[i].shopInWeek) => j = i)

\* a finished plan that filled the horizon: 20 events, the last in week 9
C2_Witness ==
    /\ pc = "done"
    /\ Len(result.entries) = 20
    /\ steps[20].week = 9

----------------------------------------------------------------------------
(* C3 *)

\* C3: no two events redeem the same reward, an event redeems at most one
\* reward, and a reward's used flag goes from false to true at most once
\* (when an event redeems it) and never back.
C3_RedemptionExclusive ==
    /\ [](/\ \A i, j \in Events :
                (entries[i].couponUsed # NoCoupon
                 /\ entries[i].couponUsed = entries[j].couponUsed) => i = j
          /\ \A c \in Heap :
                coupons[c].used <=> \E i \in Events : entries[i].couponUsed = c)
    /\ [][/\ \A c \in Heap : coupons[c].used => coupons'[c].used
          /\ Cardinality({c \in Heap : ~coupons[c].used /\ coupons'[c].used})
                <= Len(entries') - Len(entries)
          /\ Len(entries') - Len(entries) <= 1]_vars

\* a reward was redeemed and a later event fell inside its validity window
C3_Witness ==
    \E i, j \in Events :
        /\ i < j
        /\ entries[i].couponUsed # NoCoupon
        /\ entries[j].date >= coupons[entries[i].couponUsed].validFrom
        /\ entries[j].date <= coupons[entries[i].couponUsed].validUntil
        /\ entries[j].couponUsed # NoCoupon

----------------------------------------------------------------------------
(* C4 *)

\* C4: a redeemed reward carries the date of the redeeming event as its
\* redemption instant, and that date lies in [validFrom, validUntil]; it is
\* redeemed strictly after the day it was earned, by another event than the
\* one that earned it, and the first event redeems nothing.
C4_RedeemedInsideWindow ==
    /\ \A i \in Events :
          LET c == entries[i].couponUsed IN
          c # NoCoupon =>
             /\ coupons[c].used
             /\ coupons[c].usedDate = entries[i].date
             /\ entries[i].date >= coupons[c].validFrom
             /\ entries[i].date <= coupons[c].validUntil
             /\ entries[i].date > coupons[c].earnedDate
             /\ entries[i].couponEarned # c
             /\ \E k \in 1..(i - 1) : entries[k].couponEarned = c
    /\ \A c \in Heap :
          coupons[c].used =>
             /\ coupons[c].usedDate >= coupons[c].validFrom
             /\ coupons[c].usedDate <= coupons[c].validUntil
    /\ entries # <<>> => entries[1].couponUsed = NoCoupon

\* a reward redeemed on its first valid day, the day after it was earned
C4_Witness ==
    \E i \in Events :
        /\ entries[i].couponUsed # NoCoupon
        /\ entries[i].date = coupons[entries[i].couponUsed].validFrom
        /\ entries[i].date = coupons[entries[i].couponUsed].earnedDate + 1

----------------------------------------------------------------------------
(* C5 *)

\* C5: the final spend of an event that redeems a reward, before and after
\* rounding to cents, is at least the reward's minimum qualifying spend.
C5_FinalSpendMeetsMinimum ==
    \A i \in Events :
        LET c == entries[i].couponUsed IN
        c # NoCoupon =>
           /\ steps[i].plannedAmount >= coupons[c].minSpend
           /\ entries[i].plannedAmount >= coupons[c].minSpend

\* a redemption at exactly the minimum spend, and one in the last event of
\* a plan that ends with all the budget spent
C5_Witness ==
    /\ pc = "done"
    /\ totalSpend = weeklyBudget * 10
    /\ entries # <<>>
    /\ entries[Len(entries)].couponUsed # NoCoupon
    /\ \E i \in Events :
          /\ entries[i].couponUsed # NoCoupon
          /\ steps[i].plannedAmount = coupons[entries[i].couponUsed].minSpend

----------------------------------------------------------------------------
(* C6 *)

\* C6: in the returned schedule an event with savings > 0 has a redeemed
\* reward whose value is the savings, an event without a redeemed reward has
\* savings 0, and every event has a planned spend >= 0 and status planned.
C6_EventWellFormed ==
    pc = "done" =>
       \A i \in 1..Len(result.entries) :
          LET e == result.entries[i] IN
          /\ e.savings > 0 =>
                (e.couponUsed # NoCoupon
                 /\ e.savings = coupons[e.couponUsed].value)
          /\ e.couponUsed = NoCoupon => e.savings = 0
          /\ e.plannedAmount >= 0
          /\ e.status = "planned"

\* a returned schedule with a saving event and, after the first event, an
\* event that redeems and saves nothing
C6_Witness ==
    /\ pc = "done"
    /\ \E i, j \in 1..Len(result.entries) :
          /\ result.entries[i].savings > 0
          /\ j > 1
          /\ result.entries[j].couponUsed = NoCoupon
          /\ result.entries[j].savings = 0

----------------------------------------------------------------------------
(* C7 *)

\* C7: the returned totalSpend is within one cent of the sum of the events'
\* recorded planned amounts, and the returned totalSavings is the sum of the
\* events' savings.
C7_TotalsAreSums ==
    pc = "done" =>
       /\ Abs(result.totalSpend
              - SumSeq([i \in 1..Len(result.entries) |->
                           result.entries[i].plannedAmount])) <= Cents(1)
       /\ result.totalSavings
             = SumSeq([i \in 1..Len(result.entries) |->
                          result.entries[i].savings])

----------------------------------------------------------------------------
(* C8 *)

\* C8: at the end of planning couponsEarned is the number of events with an
\* earned reward, and couponsUsed is both the number of events with a
\* redeemed reward and the number of earned rewards, reached through the
\* events' earned references, whose used flag is true.
C8_CountsMatch ==
    pc = "done" =>
       /\ result.couponsEarned
             = Cardinality({i \in Events : entries[i].couponEarned # NoCoupon})
       /\ result.couponsEarned = Len(coupons)
       /\ result.couponsUsed
             = Cardinality({i \in Events : entries[i].couponUsed # NoCoupon})
       /\ result.couponsUsed
             = Cardinality({i \in Events :
                               /\ entries[i].couponEarned # NoCoupon
                               /\ coupons[entries[i].couponEarned].used})

\* a finished plan with used, unused and swept rewards
C8_Witness ==
    /\ pc = "done"
    /\ result.couponsUsed > 0
    /\ result.couponsUsed < result.couponsEarned - 1
    /\ result.missedSavings > 0

----------------------------------------------------------------------------
(* C9 *)

\* the rewards that have left the active set
Swept == {c \in Heap : c \notin Range(activeCoupons)}

\* C9: an unused active reward is swept at the first event dated strictly
\* after its expiry: its value is added to missedSavings exactly once, it
\* leaves the active set for good and is never redeemed; a reward whose
\* expiry is the event's date is not swept and is a redemption candidate at
\* that event.
C9_ExpirySweep ==
    /\ [](/\ missedSavings = SumOver(Swept, [c \in Swept |-> coupons[c].value])
          /\ \A c \in Swept :
                /\ ~coupons[c].used
                /\ \A i \in Events : entries[i].couponUsed # c
                /\ \E i \in Events :
                      /\ c \in Range(steps[i].expired)
                      /\ steps[i].entryDate > coupons[c].validUntil
                      /\ i > 1
                      /\ steps[i - 1].entryDate <= coupons[c].validUntil
                      /\ \A j \in Events :
                            c \in Range(steps[j].expired) => j = i
          /\ \A c \in Range(activeCoupons) :
                (~coupons[c].used /\ entries # <<>>)
                   => coupons[c].validUntil >= entries[Len(entries)].date
          /\ \A i \in Events : \A k \in 1..(i - 1) :
                LET c == entries[k].couponEarned IN
                (/\ c # NoCoupon
                 /\ coupons[c].validUntil = steps[i].entryDate
                 /\ \A j \in 1..(i - 1) : entries[j].couponUsed # c)
                   => /\ c \notin Range(steps[i].expired)
                      /\ c \in Range(steps[i].usable))
    /\ [][\A c \in Swept : c \notin Range(activeCoupons')]_vars

\* a reward that was a candidate on its last valid day, was not redeemed
\* then, and was swept at the next event
C9_Witness ==
    \E i \in Events : \E c \in Range(steps[i].usable) :
        /\ coupons[c].validUntil = steps[i].entryDate
        /\ entries[i].couponUsed # c
        /\ i < Len(entries)
        /\ c \in Range(steps[i + 1].expired)
        /\ missedSavings >= coupons[c].value

----------------------------------------------------------------------------
(* C10 *)

\* C10: a spend earns a large reward iff it is >= 50, a small one iff it is
\* in [25, 50) and none iff it is < 25; every event carries the reward its
\* final spend earns by this rule, earned on the event's date.
C10_ThresholdClassification ==
    \A i \in Events :
        LET s == steps[i].plannedAmount
            c == entries[i].couponEarned
        IN  /\ s >= Euro(50) <=> (c # NoCoupon /\ coupons[c].type = "large")
            /\ (s >= Euro(25) /\ s < Euro(50))
                  <=> (c # NoCoupon /\ coupons[c].type = "small")
            /\ s < Euro(25) <=> c = NoCoupon
            /\ c # NoCoupon => coupons[c].earnedDate = entries[i].date

\* a plan with an event earning a large reward at exactly 50 and an event
\* earning a small reward below 50
C10_Witness ==
    /\ \E i \in Events :
          /\ steps[i].plannedAmount = Euro(50)
          /\ entries[i].couponEarned # NoCoupon
          /\ coupons[entries[i].couponEarned].type = "large"
    /\ \E i \in Events :
          /\ steps[i].plannedAmount < Euro(50)
          /\ entries[i].couponEarned # NoCoupon
          /\ coupons[entries[i].couponEarned].type = "small"

----------------------------------------------------------------------------
(* C11 *)

----------------------------------------------------------------------------
(* C12 *)

\* C12: for every budget <= 0 the planner goes from the head of its first
\* week straight to the return, emits no event and earns no reward, and
\* returns a result with zero events and all totals and counts 0.
C12_NonPositiveBudgetEmpty ==
    weeklyBudget <= 0 =>
       /\ pc \in {"week", "return", "done"}
       /\ week = 0
       /\ entries = <<>>
       /\ coupons = <<>>
       /\ pc = "done" =>
             /\ result.entries = <<>>
             /\ result.totalSpend = 0
             /\ result.totalSavings = 0
             /\ result.missedSavings = 0
             /\ result.couponsEarned = 0
             /\ result.couponsUsed = 0

\* the planner has returned for a budget of exactly 0
C12_Witness ==
    /\ weeklyBudget = 0
    /\ pc = "done"
    /\ result.entries = <<>>

----------------------------------------------------------------------------
(* C14 *)

\* the events dated inside period p (0-based) of the horizon
EventsOfPeriod(p) ==
    {i \in Events : /\ entries[i].date >= weekStartDateOf(p)
                    /\ entries[i].date < weekStartDateOf(p) + DaysPerWeek}

\* the planner has left period p: it stands at a later week or has stopped
PeriodOver(p) == week > p \/ pc \in {"return", "done"}

----------------------------------------------------------------------------
(* C15 *)

\* C15 (scenario B): with a budget of 30 no period ever holds more than 1
\* event and every period the planner has left holds exactly 1; every event
\* earns a small reward; no event of the first period redeems a reward.
C15_ScenarioB ==
    weeklyBudget = Euro(30) =>
       /\ \A p \in 0..(Weeks - 1) :
             /\ Cardinality(EventsOfPeriod(p)) <= 1
             /\ PeriodOver(p) => Cardinality(EventsOfPeriod(p)) = 1
       /\ \A i \in Events :
             /\ entries[i].couponEarned # NoCoupon
             /\ coupons[entries[i].couponEarned].type = "small"
       /\ \A i \in EventsOfPeriod(0) : entries[i].couponUsed = NoCoupon

\* the plan for 30 has been returned with its 10 events, and the event of
\* the second period redeems the reward of the first
C15_Witness ==
    /\ weeklyBudget = Euro(30)
    /\ pc = "done"
    /\ Len(result.entries) = Weeks
    /\ result.entries[2].couponUsed = result.entries[1].couponEarned

----------------------------------------------------------------------------
(* C16 *)

\* the first event of a period that has events
FirstOfPeriod(p) ==
    CHOOSE i \in EventsOfPeriod(p) : \A j \in EventsOfPeriod(p) : i <= j

\* the amount available for period p: min(budget, budget x 10 - spend so far
\* at the start of the period)
PeriodCap(p) ==
    Min(weeklyBudget, weeklyBudget * 10 - SpentThrough(FirstOfPeriod(p) - 1))

\* the sum of the planned amounts recorded by the events of period p
PeriodSpend(p) ==
    SumOver(EventsOfPeriod(p),
            [i \in EventsOfPeriod(p) |-> entries[i].plannedAmount])

\* event i was raised above its even share by the threshold adjustment
Raised(i) == steps[i].plannedAmount > steps[i].tentative

\* C16 as stated: for every period, the sum of the planned spends of its
\* events is at most min(budget, budget x 10 - spend so far at its start).
C16_PeriodSpendWithinCap ==
    \A p \in 0..(Weeks - 1) :
        EventsOfPeriod(p) # {} => PeriodSpend(p) <= PeriodCap(p)

\* C16 amended: the amount the planner takes for a period is the cap
\* min(budget, budget x 10 - spend so far); the sum of the planned spends
\* of the period's events is at most the overall budget left at the start
\* of the period; it is at most the cap unless the threshold adjustment
\* raised an event of the period, and then exceeds the cap by at most 5.
C16_PeriodSpendWithinCapUnlessRaised ==
    \A p \in 0..(Weeks - 1) :
        EventsOfPeriod(p) # {} =>
           /\ \A i \in EventsOfPeriod(p) :
                 steps[i].week = p /\ steps[i].weeklyAmount = PeriodCap(p)
           /\ PeriodSpend(p)
                 <= weeklyBudget * 10 - SpentThrough(FirstOfPeriod(p) - 1)
           /\ (\A i \in EventsOfPeriod(p) : ~Raised(i))
                 => PeriodSpend(p) <= PeriodCap(p)
           /\ PeriodSpend(p) <= PeriodCap(p) + Euro(5)

\* a finished plan with a period that stayed within its cap and a period
\* of two events that a raise to 50 took above its cap
C16_Witness ==
    /\ pc = "done"
    /\ \E p, q \in 0..(Weeks - 1) :
          /\ EventsOfPeriod(p) # {} /\ EventsOfPeriod(q) # {}
          /\ PeriodSpend(p) <= PeriodCap(p)
          /\ PeriodSpend(q) > PeriodCap(q)
          /\ Cardinality(EventsOfPeriod(q)) = 2

----------------------------------------------------------------------------
(* C19 *)

\* C19: a period whose cap is >= 90 gets 2 event slots and a period whose
\* cap is below 90 gets 1; a period never holds more than 2 events, holds 2
\* only if its cap is >= 90, and a period with 1 slot that the planner has
\* left holds exactly 1 event.
C19_EventCountPerPeriod ==
    /\ \A i \in Events :
          /\ steps[i].weeklyAmount >= Euro(90) => steps[i].shopsThisWeek = 2
          /\ steps[i].weeklyAmount < Euro(90) => steps[i].shopsThisWeek = 1
          /\ steps[i].shopInWeek < steps[i].shopsThisWeek
    /\ pc = "shop" =>
          shopsThisWeek = (IF weeklyAmount >= Euro(90) THEN 2 ELSE 1)
    /\ \A p \in 0..(Weeks - 1) :
          /\ Cardinality(EventsOfPeriod(p)) <= 2
          /\ Cardinality(EventsOfPeriod(p)) = 2 => PeriodCap(p) >= Euro(90)
          /\ (EventsOfPeriod(p) # {} /\ PeriodCap(p) < Euro(90) /\ PeriodOver(p))
                => Cardinality(EventsOfPeriod(p)) = 1

\* a finished plan with a period of cap >= 90 that holds two events and a
\* period of cap below 90 that holds one
C19_Witness ==
    /\ pc = "done"
    /\ \E p, q \in 0..(Weeks - 1) :
          /\ EventsOfPeriod(p) # {} /\ EventsOfPeriod(q) # {}
          /\ PeriodCap(p) >= Euro(90)
          /\ Cardinality(EventsOfPeriod(p)) = 2
          /\ PeriodCap(q) < Euro(90)
          /\ Cardinality(EventsOfPeriod(q)) = 1

----------------------------------------------------------------------------
(* C20 *)

----------------------------------------------------------------------------
(* C13 *)

\* a reward without its identifier
WithoutId(c) ==
    [type |-> c.type, value |-> c.value, minSpend |-> c.minSpend,
     earnedDate |-> c.earnedDate, validFrom |-> c.validFrom,
     validUntil |-> c.validUntil, used |-> c.used, usedDate |-> c.usedDate]

\* C13: a second call with the same budget and start date starts from
\* fresh locals and returns the same events (identifier, date, planned
\* amount, savings, status, and which reward of the run each event earns
\* and redeems), the same totals and counts, and rewards that agree in
\* every field but the identifier.
C13_Determinism ==
    previous # <<>> =>
       /\ pc = "week" /\ week = 0 =>
             (entries = <<>> /\ coupons = <<>> /\ activeCoupons = <<>>
              /\ totalSpend = 0 /\ totalSavings = 0 /\ missedSavings = 0
              /\ couponsEarned = 0 /\ couponsUsed = 0)
       /\ pc = "done" =>
             /\ result = previous[1].result
             /\ Len(coupons) = Len(previous[1].coupons)
             /\ \A c \in Heap :
                   WithoutId(coupons[c]) = WithoutId(previous[1].coupons[c])

\* the second call has returned a plan with redemptions, and an identifier
\* of its rewards differs from the first call's
C13_Witness ==
    /\ previous # <<>>
    /\ pc = "done"
    /\ result.couponsUsed > 0
    /\ \E c \in Heap : coupons[c].id # previous[1].coupons[c].id

----------------------------------------------------------------------------
(* C17 *)

Absent(x) == x = Null \/ x = Undefined

\* the same reward: both absent, or the same identifier, tier, value,
\* minimum spend, earned, activation and expiry dates, used flag and used date
SameReward(x, y) ==
    IF Absent(x) \/ Absent(y) THEN Absent(x) /\ Absent(y) ELSE x = y

\* the same totals and counts and the same events in the same order
SamePlan(a, b) ==
    /\ a.totalSpend = b.totalSpend
    /\ a.totalSavings = b.totalSavings
    /\ a.missedSavings = b.missedSavings
    /\ a.couponsEarned = b.couponsEarned
    /\ a.couponsUsed = b.couponsUsed
    /\ Len(a.entries) = Len(b.entries)
    /\ \A i \in 1..Len(a.entries) :
          /\ a.entries[i].id = b.entries[i].id
          /\ a.entries[i].date = b.entries[i].date
          /\ a.entries[i].plannedAmount = b.entries[i].plannedAmount
          /\ a.entries[i].savings = b.entries[i].savings
          /\ a.entries[i].status = b.entries[i].status
          /\ SameReward(a.entries[i].couponEarned, b.entries[i].couponEarned)
          /\ SameReward(a.entries[i].couponUsed, b.entries[i].couponUsed)

\* C17: once the result r of the planner is saved, getShoppingPlan() returns
\* a plan with the totals, counts and events of r, every event with the
\* date, planned amount, savings, status and earned and redeemed rewards of
\* r's event; the plan shown after the page is loaded again is that plan.
C17_RoundTrip ==
    pc = "idle" =>
       /\ getShoppingPlan # Null
       /\ SamePlan(getShoppingPlan, ResultValue(result, coupons))
       /\ optimizationResult # Null
       /\ SamePlan(optimizationResult, ResultValue(result, coupons))

\* a saved plan is read back: it has an event with a redeemed reward and
\* its used date, and an event whose earned reward was never used
C17_Witness ==
    /\ pc = "idle"
    /\ optimizationResult = getShoppingPlan
    /\ \E i, j \in 1..Len(getShoppingPlan.entries) :
          /\ Truthy(getShoppingPlan.entries[i].couponUsed)
          /\ getShoppingPlan.entries[i].couponUsed.usedDate
                = getShoppingPlan.entries[i].date
          /\ Truthy(getShoppingPlan.entries[j].couponEarned)
          /\ getShoppingPlan.entries[j].couponEarned.usedDate = NoDate

----------------------------------------------------------------------------
(* C18 *)

\* the text of the budget field parses to a number in [20, 500]
EnteredValid ==
    LET budgetNum == parseFloat(budgetText)
    IN  /\ ~budgetNum.isNaN
        /\ budgetNum.value >= Euro(20)
        /\ budgetNum.value <= Euro(500)

InUserBounds(amount) == amount >= Euro(20) /\ amount <= Euro(500)

\* C18: a submission starts a plan generation only if the entered text
\* parses to a number in [20, 500], and then for that number; any other
\* entry sets an error message and leaves the stored budget, the stored
\* plan, the displayed plan and the pending generations as they are; every
\* call of the planner, from a submission or a regeneration, has a budget
\* in [20, 500], and so has every budget the application keeps.
C18_BudgetValidation ==
    /\ [][HandleSubmit =>
             IF EnteredValid
             THEN /\ error' = ""
                  /\ timers' = timers \cup
                         {[handler |-> "handleBudgetSet",
                           budget |-> parseFloat(budgetText).value]}
             ELSE /\ error' # ""
                  /\ UNCHANGED <<localStorage, optimizationResult,
                                 appWeeklyBudget, timers, loading>>]_vars
    /\ [][(\E t \in timers' \ timers : t.handler = "handleBudgetSet")
             => EnteredValid]_vars
    /\ [](/\ pc # "idle" => InUserBounds(weeklyBudget)
          /\ weeklyBudget # NoBudget => InUserBounds(weeklyBudget)
          /\ \A t \in timers : InUserBounds(t.budget)
          /\ appWeeklyBudget # NoBudget => InUserBounds(appWeeklyBudget)
          /\ getWeeklyBudget # Null =>
                (~getWeeklyBudget.isNaN /\ InUserBounds(getWeeklyBudget.value)))

\* a plan generated for a submitted budget is stored and displayed, and an
\* entry below 20 has been refused with an error
C18_Witness ==
    /\ pc = "idle"
    /\ Truthy(optimizationResult)
    /\ getShoppingPlan # Null
    /\ getWeeklyBudget # Null
    /\ budgetText = <<"1", "9", ".", "9", "9">>
    /\ error = "Budget should be at least 20 per week"
    /\ weeklyBudget = appWeeklyBudget

----------------------------------------------------------------------------
(* C21 *)

\* the active rewards that are unused and whose window holds the date
Redeemable(date) ==
    {c \in Range(activeCoupons) :
        /\ ~coupons[c].used
        /\ date >= coupons[c].validFrom
        /\ date <= coupons[c].validUntil}

\* C21: at every event the candidates are the active rewards that are
\* unused and whose [activation, expiry] holds the event's date; the
\* selected one has the highest value among them and, among those of that
\* value, the earliest expiry; with no candidate nothing is selected; the
\* event redeems the selected reward or none.
C21_CandidateSelection ==
    [][pc = "shop" =>
         LET s == steps'[Len(steps')]
             e == entries'[Len(entries')]
             cands == Redeemable(s.entryDate)
         IN  /\ Range(s.usable) = cands
             /\ cands = {} => s.bestCoupon = NoCoupon
             /\ cands # {} =>
                   /\ s.bestCoupon \in cands
                   /\ \A c \in cands :
                         /\ coupons[c].value <= coupons[s.bestCoupon].value
                         /\ coupons[c].value = coupons[s.bestCoupon].value =>
                               coupons[c].validUntil
                                  >= coupons[s.bestCoupon].validUntil
             /\ e.couponUsed \in {NoCoupon, s.bestCoupon}]_vars

\* an event that redeemed the selected reward while a reward of the same
\* value and a later expiry was a candidate too
C21_Witness ==
    \E i \in Events : \E c \in Range(steps[i].usable) :
        /\ entries[i].couponUsed = steps[i].bestCoupon
        /\ coupons[c].value = coupons[steps[i].bestCoupon].value
        /\ coupons[c].validUntil > coupons[steps[i].bestCoupon].validUntil

----------------------------------------------------------------------------
(* C22 *)

\* C22: the tentative spend of an event is the period's cap minus the
\* planned spend of the period's earlier events, divided by the number of
\* event slots left in the period; the event redeems the selected reward
\* if and only if the tentative spend is >= the reward's minimum spend,
\* that is iff canUseCoupon(candidate, tentative spend, event date); with
\* no candidate it redeems nothing.  The amount after the threshold
\* adjustment plays no part.
C22_RedemptionLockIn ==
    [][pc = "shop" =>
         LET s == steps'[Len(steps')]
             e == entries'[Len(entries')]
             earlier == EventsOfPeriod(week)
             left == weeklyAmount
                       - SumOver(earlier,
                                 [i \in earlier |-> entries[i].plannedAmount])
         IN  /\ s.tentative * (shopsThisWeek - shopInWeek) = left
             /\ s.bestCoupon = NoCoupon => e.couponUsed = NoCoupon
             /\ s.bestCoupon # NoCoupon =>
                   /\ e.couponUsed = s.bestCoupon
                         <=> s.tentative >= coupons[s.bestCoupon].minSpend
                   /\ e.couponUsed = s.bestCoupon
                         <=> canUseCoupon(coupons[s.bestCoupon], s.tentative,
                                          s.entryDate)
                   /\ e.couponUsed # s.bestCoupon => e.couponUsed = NoCoupon]_vars

\* a plan with an event whose tentative spend was below the candidate's
\* minimum and was then raised to it, without a redemption, and an event
\* that redeemed its candidate
C22_Witness ==
    /\ \E i \in Events :
          /\ steps[i].bestCoupon # NoCoupon
          /\ steps[i].tentative < coupons[steps[i].bestCoupon].minSpend
          /\ steps[i].plannedAmount >= coupons[steps[i].bestCoupon].minSpend
          /\ entries[i].couponUsed = NoCoupon
    /\ \E i \in Events : entries[i].couponUsed # NoCoupon

----------------------------------------------------------------------------
(* C23 *)

\* the adjusted amount q of the statement, for a tentative spend p and a
\* remaining overall budget r
ThresholdSpend(p, r) ==
    CASE p >= Euro(45) /\ p < Euro(50) /\ r >= Euro(50) -> Euro(50)
      [] p >= Euro(50) -> p
      [] p >= Euro(20) /\ p < Euro(25) /\ r >= Euro(25) -> Euro(25)
      [] p >= Euro(25) /\ p < Euro(50) /\ ~(p >= Euro(45) /\ r >= Euro(50))
           -> Min(Cents(4999), p)
      [] OTHER -> p

\* C23: for tentative spend p and remaining overall budget r the final
\* spend of an event is min(r, q), q = 50 if 45 <= p < 50 and r >= 50,
\* q = p if p >= 50, q = 25 if 20 <= p < 25 and r >= 25, q = min(49.99, p)
\* if 25 <= p < 50 otherwise, q = p in all other cases; an event with
\* p in [45, 50) and r >= 50 earns a large reward and one with p in
\* [20, 25) and r >= 25 earns a small reward.
C23_ThresholdAdjustment ==
    \A i \in Events :
        LET p == steps[i].tentative
            r == steps[i].remainingBudget
        IN  /\ steps[i].plannedAmount = Min(r, ThresholdSpend(p, r))
            /\ p >= Euro(45) /\ p < Euro(50) /\ r >= Euro(50) =>
                  /\ entries[i].couponEarned # NoCoupon
                  /\ coupons[entries[i].couponEarned].type = "large"
            /\ p >= Euro(20) /\ p < Euro(25) /\ r >= Euro(25) =>
                  /\ entries[i].couponEarned # NoCoupon
                  /\ coupons[entries[i].couponEarned].type = "small"

\* a plan with an event raised from [45, 50) to 50 that earned a large
\* reward and a later event in [45, 50) left as it was because less than
\* 50 remained
C23_Witness ==
    /\ \E i \in Events :
          /\ steps[i].tentative >= Euro(45)
          /\ steps[i].tentative < Euro(50)
          /\ steps[i].plannedAmount = Euro(50)
          /\ coupons[entries[i].couponEarned].type = "large"
    /\ \E i \in Events :
          /\ steps[i].tentative >= Euro(45)
          /\ steps[i].remainingBudget < Euro(50)
          /\ steps[i].plannedAmount = steps[i].tentative

----------------------------------------------------------------------------
(* C24 *)

\* C24: with a positive budget the cap of a period, min(budget, budget x 10
\* - spend so far), is the budget in every processed period except possibly
\* the last one processed: no event belongs to a period later than one
\* whose cap was below the budget.
C24_CapIsBudgetUntilLastPeriod ==
    weeklyBudget > 0 =>
        \A i \in Events :
            /\ steps[i].weeklyAmount <= weeklyBudget
            /\ steps[i].weeklyAmount < weeklyBudget =>
                  \A j \in Events : steps[j].week <= steps[i].week

\* a finished plan whose last period had a cap below the budget, after
\* earlier periods with the full budget
C24_Witness ==
    /\ pc = "done"
    /\ weeklyBudget > 0
    /\ \E i \in Events :
          /\ steps[i].weeklyAmount < weeklyBudget
          /\ \E j \in Events :
                /\ steps[j].week < steps[i].week
                /\ steps[j].weeklyAmount = weeklyBudget

----------------------------------------------------------------------------
(* C25 *)

\* C25: for every positive budget in whole cents the returned totalSpend is
\* exactly budget x 10, and no event is emitted after the event at which
\* the running total reaches budget x 10.
C25_BudgetExhausted ==
    weeklyBudget > 0 =>
        /\ \A i \in Events : SpentThrough(i - 1) < totalBudget
        /\ pc = "done" => result.totalSpend = totalBudget

----------------------------------------------------------------------------
(* C26 *)

\* the candidates of the highest value among the rewards redeemable on date
HighestValue(date) ==
    {c \in Redeemable(date) :
        \A d \in Redeemable(date) : coupons[d].value <= coupons[c].value}

\* C26: when the highest-value unused reward valid on the event's date has
\* a minimum spend above the tentative spend, the event redeems nothing,
\* even if a lower-value valid unused reward has a minimum spend that the
\* tentative spend meets; a reward is never redeemed at an event where an
\* active valid unused reward has a higher value.
C26_NoFallbackRedemption ==
    [][pc = "shop" =>
         LET s == steps'[Len(steps')]
             e == entries'[Len(entries')]
         IN  /\ (\E c \in HighestValue(s.entryDate) :
                     coupons[c].minSpend > s.tentative)
                   => e.couponUsed = NoCoupon
             /\ e.couponUsed # NoCoupon =>
                   \A d \in Redeemable(s.entryDate) :
                       coupons[d].value <= coupons[e.couponUsed].value]_vars

\* an event that redeemed nothing: its highest-value candidate asked for
\* more than the tentative spend while a candidate of lower value asked for
\* no more than it
C26_Witness ==
    \E i \in Events :
        /\ entries[i].couponUsed = NoCoupon
        /\ steps[i].bestCoupon # NoCoupon
        /\ coupons[steps[i].bestCoupon].minSpend > steps[i].tentative
        /\ \E c \in Range(steps[i].usable) :
              /\ coupons[c].value < coupons[steps[i].bestCoupon].value
              /\ coupons[c].minSpend <= steps[i].tentative

----------------------------------------------------------------------------
(* C27 *)

\* the events that redeemed reward c, and the events whose sweep removed it
RedeemedAt(c) == {i \in Events : entries[i].couponUsed = c}
SweptAt(c) == {i \in Events : c \in Range(steps[i].expired)}

\* reward c is unused and still in the active list
UnusedActive(c) == ~coupons[c].used /\ c \in Range(activeCoupons)

\* the total value of the rewards of the heap that satisfy the flags
ValueWhere(flags) ==
    SumSeq([c \in 1..Len(coupons) |-> IF flags[c] THEN coupons[c].value ELSE 0])

\* C27: after every event each reward earned so far is in exactly one of
\* three states: redeemed (by one event, counted once in totalSavings and
\* couponsUsed), swept as expired (by one event, counted once in
\* missedSavings), or unused and still active; totalSavings + missedSavings
\* + the value of the unused active rewards is the total value earned, and
\* couponsUsed <= couponsEarned.
C27_LifecyclePartition ==
    /\ \A c \in Heap :
          /\ Cardinality(RedeemedAt(c)) + Cardinality(SweptAt(c))
                + (IF UnusedActive(c) THEN 1 ELSE 0) = 1
          /\ coupons[c].used <=> RedeemedAt(c) # {}
    /\ couponsEarned = Len(coupons)
    /\ couponsUsed = Cardinality({c \in Heap : RedeemedAt(c) # {}})
    /\ totalSavings = ValueWhere([c \in Heap |-> RedeemedAt(c) # {}])
    /\ missedSavings = ValueWhere([c \in Heap |-> SweptAt(c) # {}])
    /\ totalSavings + missedSavings
          + ValueWhere([c \in Heap |-> UnusedActive(c)])
          = ValueWhere([c \in Heap |-> TRUE])
    /\ couponsUsed <= couponsEarned

\* a state with a redeemed reward, a swept reward and an unused active one
C27_Witness ==
    /\ \E c \in Heap : RedeemedAt(c) # {}
    /\ \E c \in Heap : SweptAt(c) # {}
    /\ \E c \in Heap : UnusedActive(c)

----------------------------------------------------------------------------
(* C28 *)

\* the date of the last emitted event
LastEventDate == entries[Len(entries)].date

\* C28: the returned missedSavings is the total value of exactly the earned
\* rewards that were never redeemed and whose expiry is strictly before the
\* date of the last emitted event; an unredeemed reward whose expiry is on
\* or after that date was neither swept nor redeemed, so it is in neither
\* missedSavings nor totalSavings.
C28_MissedSavingsAtReturn ==
    pc = "done" =>
       /\ result.missedSavings
             = ValueWhere([c \in Heap |->
                             /\ RedeemedAt(c) = {}
                             /\ coupons[c].validUntil < LastEventDate])
       /\ result.totalSavings = ValueWhere([c \in Heap |-> RedeemedAt(c) # {}])
       /\ \A c \in Heap :
             SweptAt(c) # {} <=>
                /\ RedeemedAt(c) = {}
                /\ coupons[c].validUntil < LastEventDate

\* a returned plan with missed savings and with an unredeemed reward, earned
\* before the last event, that expires on or after the last event's date
C28_Witness ==
    /\ pc = "done"
    /\ result.missedSavings > 0
    /\ \E c \in Heap :
          /\ RedeemedAt(c) = {}
          /\ coupons[c].earnedDate < LastEventDate
          /\ coupons[c].validUntil >= LastEventDate

----------------------------------------------------------------------------
(* C29 *)

\* no budget is stored, no plan is stored and no plan is displayed
AllCleared ==
    /\ localStorage.dunnes_weekly_budget = Null
    /\ localStorage.dunnes_shopping_plan = Null
    /\ optimizationResult = Null

\* C29: once Clear Data is confirmed, the stored budget, the stored plan
\* and the displayed plan stay absent until the user next submits a budget;
\* a generation started before the clear and still waiting on its delay
\* neither stores nor displays a plan afterwards; and a plan is never stored
\* while no budget is stored.
C29_ClearedUntilNextSubmit ==
    /\ [](localStorage.dunnes_shopping_plan # Null
             => localStorage.dunnes_weekly_budget # Null)
    /\ [][AllCleared /\ ~AllCleared' => HandleSubmit]_vars

====
